---- MODULE Spec2Model ----
(***************************************************************************)
(* Model of the notifyOwner callable (functions/index.js): requester       *)
(* fingerprinting, owner resolution, the two-scope rate limiter backed by  *)
(* a Firestore transaction, push dispatch, stale-token cleanup and the     *)
(* audit write.  Times are milliseconds, as in the source.                 *)
(***************************************************************************)
EXTENDS Integers, Sequences, FiniteSets, TLC

VARIABLES now, ticks, started, pc, req, counters, users, notifications,
          sent, accepted, acceptedAt

vars == <<now, ticks, started, pc, req, counters, users, notifications,
          sent, accepted, acceptedAt>>

\* accepted and acceptedAt are history: per counter, the number of attempts
\* committed in its current window and (kept in the specification of the
\* windows only) the clock readings of the attempts committed so far

(***************************************************************************)
(* Bounds of the exploration.                                              *)
(***************************************************************************)
MaxTicks == 1
MaxSeqTicks == 2
MaxCodesTicks == 1
MaxPipelineTicks == 1
MaxRequests == 2
MaxSeqRequests == 9
MaxResolveRequests == 1

SeqTickSteps == {500, 60000}
ConcTickSteps == {500, 60500}
LongTickSteps == {60500}
Procs == {"p1", "p2"}

(***************************************************************************)
(* Program constants.                                                      *)
(***************************************************************************)
RATE_LIMIT_CONFIG ==
  [perOrigin |-> [windowMs |-> 60 * 1000, max |-> 3, scope |-> "origin"],
   perQr     |-> [windowMs |-> 60 * 1000, max |-> 8, scope |-> "qr"]]

MinRetrySeconds == 5
MsPerSecond == 1000

NoDoc == [exists |-> FALSE]
NoError == [code |-> "none"]
NoRequest == [present |-> FALSE, forwardedFor |-> <<>>]

Max(a, b) == IF a > b THEN a ELSE b

\* Math.ceil(a / b) for b > 0 and any integer a
CeilDiv(a, b) == -((-a) \div b)

(***************************************************************************)
(* RequesterIdentity                                                       *)
(***************************************************************************)

\* sha256(ip|ua).hex.slice(0, 32): an opaque token per identity string
Sha256Hex32(ip, userAgent) ==
  CASE ip = "ip1" /\ userAgent = "ua1" -> "h_ip1_ua1"
    [] ip = "ip1" /\ userAgent = "unknown" -> "h_ip1_unknown"
    [] ip = "ip2" /\ userAgent = "ua1" -> "h_ip2_ua1"
    [] ip = "ip2" /\ userAgent = "unknown" -> "h_ip2_unknown"
    [] ip = "unknown" /\ userAgent = "ua1" -> "h_unknown_ua1"
    [] ip = "unknown" /\ userAgent = "unknown" -> "h_unknown_unknown"

\* rawRequest: forwardedFor is the comma-separated header as a sequence of
\* hops (empty when the header is absent), ip / remoteAddress / userAgent
\* are "" when absent.
RawRequests ==
  { NoRequest,
    [present |-> TRUE, forwardedFor |-> <<"ip1", "ip2">>, ip |-> "ip2",
     remoteAddress |-> "", userAgent |-> "ua1"],
    [present |-> TRUE, forwardedFor |-> <<>>, ip |-> "", remoteAddress |-> "ip2",
     userAgent |-> "ua1"] }

getRequesterFingerprint_NoSentinel(rawRequest) ==
  LET firstHop == IF Len(rawRequest.forwardedFor) > 0
                  THEN rawRequest.forwardedFor[1] ELSE ""
      ip == IF firstHop # "" THEN firstHop
            ELSE IF rawRequest.present /\ rawRequest.ip # "" THEN rawRequest.ip
            ELSE IF rawRequest.present /\ rawRequest.remoteAddress # ""
                 THEN rawRequest.remoteAddress
            ELSE "unknown"
      userAgent == IF rawRequest.present /\ rawRequest.userAgent # ""
                   THEN rawRequest.userAgent ELSE "unknown"
  IN [fingerprint |-> Sha256Hex32(ip, userAgent), ip |-> ip]

getRequesterFingerprint_PeerFirst(rawRequest) ==
  IF ~rawRequest.present
  THEN [fingerprint |-> "anonymous", ip |-> "unknown"]
  ELSE LET firstHop == IF Len(rawRequest.forwardedFor) > 0
                       THEN rawRequest.forwardedFor[1] ELSE ""
           ip == IF rawRequest.ip # "" THEN rawRequest.ip
                 ELSE IF rawRequest.remoteAddress # "" THEN rawRequest.remoteAddress
                 ELSE IF firstHop # "" THEN firstHop
                 ELSE "unknown"
           userAgent == IF rawRequest.userAgent # "" THEN rawRequest.userAgent
                        ELSE "unknown"
       IN [fingerprint |-> Sha256Hex32(ip, userAgent), ip |-> ip]

getRequesterFingerprint(rawRequest) ==
  IF ~rawRequest.present
  THEN [fingerprint |-> "anonymous", ip |-> "unknown"]
  ELSE LET firstHop == IF Len(rawRequest.forwardedFor) > 0
                       THEN rawRequest.forwardedFor[1] ELSE ""
           ip == IF firstHop # "" THEN firstHop
                 ELSE IF rawRequest.ip # "" THEN rawRequest.ip
                 ELSE IF rawRequest.remoteAddress # "" THEN rawRequest.remoteAddress
                 ELSE "unknown"
           userAgent == IF rawRequest.userAgent # "" THEN rawRequest.userAgent
                        ELSE "unknown"
       IN [fingerprint |-> Sha256Hex32(ip, userAgent), ip |-> ip]

Fingerprints == { getRequesterFingerprint(r).fingerprint : r \in RawRequests }

\* connection contexts that give the requester's address in each of the
\* places the function looks at, in a header whose first hop is empty, or
\* nowhere
OriginRawRequests ==
  { [present |-> TRUE, forwardedFor |-> <<"ip1", "ip2">>, ip |-> "ip2",
     remoteAddress |-> "", userAgent |-> "ua1"],
    [present |-> TRUE, forwardedFor |-> <<>>, ip |-> "ip1", remoteAddress |-> "ip2",
     userAgent |-> "ua1"],
    [present |-> TRUE, forwardedFor |-> <<>>, ip |-> "", remoteAddress |-> "ip1",
     userAgent |-> "ua1"],
    [present |-> TRUE, forwardedFor |-> <<"", "ip1">>, ip |-> "ip2",
     remoteAddress |-> "", userAgent |-> "ua1"],
    [present |-> TRUE, forwardedFor |-> <<>>, ip |-> "", remoteAddress |-> "",
     userAgent |-> "ua1"] }

\* the fingerprints of the requests that can reach the limiter
LimitedFingerprints ==
  Fingerprints \cup { getRequesterFingerprint(r).fingerprint : r \in OriginRawRequests }

(***************************************************************************)
(* RateLimiter: enforceRateLimits                                          *)
(***************************************************************************)
QrIds == {"qr1", "qr2"}

\* limitsRef.doc(`qr:${qrId}:origin:${requesterFingerprint}`)
perOriginRef(qrId, requesterFingerprint) == <<"qr", qrId, "origin", requesterFingerprint>>
perQrRef_Shared(qrId) == <<"qr", "qr1", "global">>

\* limitsRef.doc(`qr:${qrId}:global`)
perQrRef(qrId) == <<"qr", qrId, "global">>

\* the codes whose requests can pass the lookups and reach the limiter
LimitedQrIds == QrIds \cup {"qr12"}

Refs == { perOriginRef(q, f) : q \in LimitedQrIds, f \in LimitedFingerprints }
          \cup { perQrRef(q) : q \in LimitedQrIds }

checks(qrId, requesterFingerprint) ==
  << [ref |-> perOriginRef(qrId, requesterFingerprint),
      config |-> RATE_LIMIT_CONFIG.perOrigin],
     [ref |-> perQrRef(qrId), config |-> RATE_LIMIT_CONFIG.perQr] >>

windowStartMs(snap, nowMs) == IF snap.exists THEN snap.windowStart ELSE nowMs
elapsedMs(snap, nowMs) == nowMs - windowStartMs(snap, nowMs)
snapCount(snap) == IF snap.exists THEN snap.count ELSE 0

nextCount_Inclusive(snap, nowMs, config) ==
  IF elapsedMs(snap, nowMs) >= config.windowMs THEN 1 ELSE snapCount(snap) + 1

nextCount(snap, nowMs, config) ==
  IF elapsedMs(snap, nowMs) > config.windowMs THEN 1 ELSE snapCount(snap) + 1

exhausted(snap, nowMs, config) == nextCount(snap, nowMs, config) > config.max

retryAfterSeconds_NoFloor(snap, nowMs, config) ==
  CeilDiv(config.windowMs - elapsedMs(snap, nowMs), MsPerSecond)

retryAfterSeconds(snap, nowMs, config) ==
  Max(MinRetrySeconds, CeilDiv(config.windowMs - elapsedMs(snap, nowMs), MsPerSecond))

resourceExhausted(snap, nowMs, config) ==
  [code |-> "resource-exhausted",
   retryAfterSeconds |-> retryAfterSeconds(snap, nowMs, config),
   scope |-> config.scope]

updateData_KeepWindow(snap, nowMs, config) ==
  [exists |-> TRUE,
   count |-> nextCount(snap, nowMs, config),
   windowStart |-> windowStartMs(snap, nowMs),
   updatedAt |-> nowMs,
   scope |-> config.scope]

updateData(snap, nowMs, config) ==
  [exists |-> TRUE,
   count |-> nextCount(snap, nowMs, config),
   windowStart |-> IF elapsedMs(snap, nowMs) > config.windowMs
                   THEN nowMs ELSE windowStartMs(snap, nowMs),
   updatedAt |-> nowMs,
   scope |-> config.scope]

\* The forEach over the two checks: the result is the error thrown (if any)
\* and the content of the updates array at that point.
RECURSIVE runChecks(_, _, _, _, _)
runChecks(cs, snapshots, nowMs, index, updates) ==
  IF index > Len(cs) THEN [error |-> NoError, updates |-> updates]
  ELSE IF exhausted(snapshots[index], nowMs, cs[index].config)
       THEN [error |-> resourceExhausted(snapshots[index], nowMs, cs[index].config),
             updates |-> updates]
       ELSE runChecks(cs, snapshots, nowMs, index + 1,
                      Append(updates, [ref |-> cs[index].ref,
                                       data |-> updateData(snapshots[index], nowMs,
                                                           cs[index].config)]))

stagedWrites_Eager(result) == result.updates

\* updates.forEach(txn.set) is reached only when no check threw
stagedWrites(result) == IF result.error # NoError THEN <<>> ELSE result.updates

conflicts_Never(snapshots, cs) == FALSE

conflicts_Always(snapshots, cs) == TRUE

conflicts_OriginOnly(snapshots, cs) == counters[cs[1].ref] # snapshots[1]

\* a document read by the transaction was written since it was read
conflicts(snapshots, cs) ==
  \E i \in 1..Len(cs) : counters[cs[i].ref] # snapshots[i]

(***************************************************************************)
(* The document store: qrCodes and vehicles are read-only for the          *)
(* function, users is written by the stale-token cleanup.                  *)
(***************************************************************************)
NoMetadata == [k \in {} |-> ""]

qrCodes(qrId) ==
  CASE qrId = "qr1" -> [exists |-> TRUE, isActive |-> TRUE, userId |-> "u1",
                        vehicleId |-> "v1", fcmToken |-> "", metadata |-> NoMetadata]
    [] qrId = "qr2" -> [exists |-> TRUE, isActive |-> TRUE, userId |-> "",
                        vehicleId |-> "", fcmToken |-> "tokQ2",
                        metadata |-> [userId |-> "u2"]]
    [] qrId = "qr3" -> [exists |-> TRUE, isActive |-> FALSE, userId |-> "u1",
                        vehicleId |-> "", fcmToken |-> "", metadata |-> NoMetadata]
    [] qrId = "qr4" -> [exists |-> TRUE, isActive |-> TRUE, userId |-> " ",
                        vehicleId |-> "", fcmToken |-> "", metadata |-> NoMetadata]
    [] qrId = "qr5" -> [exists |-> TRUE, isActive |-> TRUE, userId |-> "u3",
                        vehicleId |-> "", fcmToken |-> "tokQ5", metadata |-> NoMetadata]
    [] qrId = "qr6" -> [exists |-> TRUE, isActive |-> TRUE, userId |-> "u4",
                        vehicleId |-> "", fcmToken |-> "", metadata |-> NoMetadata]
    [] qrId = "qr10" -> [exists |-> TRUE, isActive |-> TRUE, userId |-> "u5",
                         vehicleId |-> "", fcmToken |-> "tokQ10", metadata |-> NoMetadata]
    [] qrId = "qr12" -> [exists |-> TRUE, isActive |-> TRUE, userId |-> "",
                         vehicleId |-> "", fcmToken |-> "", metadata |-> NoMetadata]
    [] OTHER -> NoDoc

\* u3 has no profile, u4 has disabled notifications, u5 stores a blank token
UserIds == {"u1", "u2", "u3", "u4", "u5"}

InitUsers ==
  [u \in UserIds |->
     CASE u = "u1" -> [exists |-> TRUE, fcmToken |-> "tokU1", notificationsEnabled |-> TRUE]
       [] u = "u2" -> [exists |-> TRUE, fcmToken |-> "", notificationsEnabled |-> TRUE]
       [] u = "u3" -> NoDoc
       [] u = "u4" -> [exists |-> TRUE, fcmToken |-> "tokU4", notificationsEnabled |-> FALSE]
       [] u = "u5" -> [exists |-> TRUE, fcmToken |-> " ", notificationsEnabled |-> TRUE]]

\* v1 is enabled, v2 is inactive, any other vehicle has no sub-record
vehicles(userId, vehicleId) ==
  IF userId = "u1" /\ vehicleId = "v1"
  THEN [exists |-> TRUE, isActive |-> TRUE, notificationsEnabled |-> TRUE]
  ELSE IF userId = "u1" /\ vehicleId = "v2"
  THEN [exists |-> TRUE, isActive |-> FALSE, notificationsEnabled |-> TRUE]
  ELSE NoDoc

\* String.prototype.trim on the strings the model uses
Trim(s) ==
  CASE s = " " -> "" [] s = " u1 " -> "u1" [] s = " lights " -> "lights" [] OTHER -> s

\* the values of a metadata map that are not strings: null and the number
\* 7, written as tokens that no string of the model equals
JsNull == "<null>"
JsSeven == "<7>"

\* String(value): a string is itself, the number 7 is "7", null is "null"
String(value) ==
  CASE value = JsSeven -> "7" [] value = JsNull -> "null" [] OTHER -> value

\* a || b || c || d on strings: the first non-empty one, else the last
RECURSIVE FirstTruthy(_)
FirstTruthy(candidates) ==
  IF Len(candidates) = 1 \/ Head(candidates) # "" THEN Head(candidates)
  ELSE FirstTruthy(Tail(candidates))

Field(map, key) == IF key \in DOMAIN map THEN map[key] ELSE ""

Payloads ==
  { [qrId |-> "qr1", userId |-> "", fcmToken |-> "", vehicleId |-> "",
     title |-> "Alert", body |-> "Please move", metadata |-> NoMetadata],
    [qrId |-> "qr2", userId |-> "u1", fcmToken |-> "tokP", vehicleId |-> "",
     title |-> "Alert", body |-> "Lights on", metadata |-> [reason |-> "lights"]],
    [qrId |-> "qr9", userId |-> "u1", fcmToken |-> "tokP", vehicleId |-> "",
     title |-> "Alert", body |-> "Please move", metadata |-> NoMetadata],
    [qrId |-> "qr1", userId |-> "", fcmToken |-> "", vehicleId |-> "",
     title |-> "", body |-> "", metadata |-> NoMetadata] }

NoPayload == [qrId |-> "", userId |-> "", fcmToken |-> "", vehicleId |-> "",
              title |-> "", body |-> "", metadata |-> NoMetadata]

NoResult == [ok |-> FALSE]
NoReject == [at |-> -1, retry |-> 0, scope |-> "none"]

EmptyReq ==
  [caller |-> "none", payload |-> NoPayload, rawRequest |-> NoRequest,
   qrId |-> "", requesterFingerprint |-> "", cleanedMetadata |-> NoMetadata,
   resolvedUserId |-> "", resolvedVehicleId |-> "", resolvedFcmToken |-> "",
   nowMs |-> 0, rerun |-> FALSE, snapshots |-> <<>>, decision |-> "none",
   retryOf |-> NoReject,
   vehicleLookupFailed |-> FALSE, commits |-> 0, gateway |-> <<>>,
   cleanup |-> "none",
   sendAcked |-> FALSE, appended |-> 0, error |-> NoError, result |-> NoResult]

missingFields_IdOnly(payload) ==
  SelectSeq(<<"qrId">>, LAMBDA f : payload[f] = "")

missingFields(payload) ==
  SelectSeq(<<"qrId", "title", "body">>, LAMBDA f : payload[f] = "")

cleanMetadata_StringsOnly(metadata) ==
  LET kept == { k \in DOMAIN metadata :
                  metadata[k] \notin {JsNull, JsSeven} /\ Trim(metadata[k]) # "" }
  IN [k \in kept |-> Trim(metadata[k])]

\* the entries of metadata that are neither undefined nor null, as trimmed
\* strings, without those that are empty then
cleanMetadata(metadata) ==
  LET kept == { k \in DOMAIN metadata :
                  metadata[k] # JsNull /\ Trim(String(metadata[k])) # "" }
  IN [k \in kept |-> Trim(String(metadata[k]))]

httpsError(code) == [code |-> code]

Init ==
  /\ now = 0
  /\ ticks = 0
  /\ started = 0
  /\ pc = [p \in Procs |-> "idle"]
  /\ req = [p \in Procs |-> EmptyReq]
  /\ counters = [r \in Refs |-> NoDoc]
  /\ users = InitUsers
  /\ notifications = <<>>
  /\ sent = <<>>
  /\ accepted = [r \in Refs |-> 0]
  /\ acceptedAt = [r \in Refs |-> <<>>]

store == <<users, notifications, sent>>
limiter == <<counters, accepted>>

\* Date.now() moves on; the clock is observed only where Date.now() is
\* read, so it is advanced only when some caller is about to read it
Tick(d, bound, readers) ==
  /\ ticks < bound
  /\ readers # {}
  /\ now' = now + d
  /\ ticks' = ticks + 1
  /\ UNCHANGED <<started, pc, req, store, limiter>>

(***************************************************************************)
(* enforceRateLimits                                                       *)
(***************************************************************************)
\* entry of enforceRateLimits called on its own: the early return for an
\* empty qrId, else Date.now() and the references
RLCall(p, qrId, requesterFingerprint) ==
  /\ pc[p] \in {"idle", "done"}
  /\ req' = [req EXCEPT ![p] = [EmptyReq EXCEPT !.caller = "enforceRateLimits",
                                               !.qrId = qrId,
                                               !.requesterFingerprint = requesterFingerprint,
                                               !.nowMs = now]]
  /\ pc' = [pc EXCEPT ![p] = IF qrId = "" THEN "done" ELSE "txn"]
  /\ UNCHANGED <<now, ticks, store, limiter>>

\* a caller whose call was rejected calls again with the same arguments;
\* retryOf remembers the rejection it answers
RLRetry(p) ==
  /\ pc[p] = "done"
  /\ req[p].caller = "enforceRateLimits"
  /\ req[p].decision = "rejected"
  /\ req' = [req EXCEPT ![p] =
               [EmptyReq EXCEPT !.caller = "enforceRateLimits",
                                !.qrId = req[p].qrId,
                                !.requesterFingerprint = req[p].requesterFingerprint,
                                !.nowMs = now,
                                !.retryOf = [at |-> req[p].nowMs,
                                             retry |-> req[p].error.retryAfterSeconds,
                                             scope |-> req[p].error.scope]]]
  /\ pc' = [pc EXCEPT ![p] = "txn"]
  /\ UNCHANGED <<now, ticks, started, store, limiter>>

rethrown_Wrapped(r, error) ==
  IF r.caller = "notifyOwner" THEN [code |-> "internal"] ELSE error

\* if (error instanceof HttpsError) throw error: what the caller of
\* notifyOwner gets for an HttpsError thrown inside the try block
rethrown(r, error) == error

afterRateLimit(r) == IF r.caller = "notifyOwner" THEN "send" ELSE "done"

applyWrites(docs, writes) ==
  [r \in Refs |->
     IF \E i \in 1..Len(writes) : writes[i].ref = r
     THEN (CHOOSE w \in { writes[i] : i \in 1..Len(writes) } : w.ref = r).data
     ELSE docs[r]]

\* one run of the transaction callback up to the forEach over the checks:
\* both documents are read, the checks run on the snapshots, and a check
\* that fails throws out of the transaction
TxnRead(p) ==
  /\ pc[p] = "txn"
  /\ LET r == req[p]
         cs == checks(r.qrId, r.requesterFingerprint)
         snapshots == [i \in 1..Len(cs) |-> counters[cs[i].ref]]
         result == runChecks(cs, snapshots, r.nowMs, 1, <<>>)
     IN IF result.error # NoError
        THEN /\ counters' = applyWrites(counters, stagedWrites(result))
             /\ req' = [req EXCEPT ![p].decision = "rejected",
                                   ![p].error = rethrown(r, result.error)]
             /\ pc' = [pc EXCEPT ![p] = "done"]
             /\ UNCHANGED accepted
        ELSE /\ req' = [req EXCEPT ![p].snapshots = snapshots]
             /\ pc' = [pc EXCEPT ![p] = "commit"]
             /\ UNCHANGED limiter
  /\ UNCHANGED <<now, ticks, started, store>>

\* the commit of the transaction: the staged writes are applied together,
\* unless a document read was written meanwhile, and then the callback is
\* run again
TxnCommit(p) ==
  /\ pc[p] = "commit"
  /\ LET r == req[p]
         cs == checks(r.qrId, r.requesterFingerprint)
         result == runChecks(cs, r.snapshots, r.nowMs, 1, <<>>)
         writes == stagedWrites(result)
         touched == { cs[i].ref : i \in 1..Len(cs) }
         idx(ref) == CHOOSE i \in 1..Len(writes) : writes[i].ref = ref
         restarts(ref) == \/ ~counters[ref].exists
                          \/ counters[ref].windowStart # writes[idx(ref)].data.windowStart
     IN IF conflicts(r.snapshots, cs)
        THEN /\ req' = [req EXCEPT ![p].snapshots = <<>>, ![p].rerun = TRUE]
             /\ pc' = [pc EXCEPT ![p] = "txn"]
             /\ UNCHANGED limiter
        ELSE /\ counters' = applyWrites(counters, writes)
             /\ accepted' = [x \in Refs |-> IF x \notin touched THEN accepted[x]
                                            ELSE IF restarts(x) THEN 1
                                            ELSE accepted[x] + 1]
             /\ req' = [req EXCEPT ![p].decision = "accepted",
                                   ![p].commits = @ + 1,
                                   ![p].snapshots = <<>>]
             /\ pc' = [pc EXCEPT ![p] = afterRateLimit(r)]
  /\ UNCHANGED <<now, ticks, started, store>>

Counted(bound) == started < bound /\ started' = started + 1

(***************************************************************************)
(* notifyOwner                                                             *)
(***************************************************************************)
\* entry of notifyOwner up to the first store read: the requester
\* fingerprint, the payload fields, the required-field check and the
\* cleaned metadata
Begin(p, payload, rawRequest) ==
  /\ pc[p] \in {"idle", "done"}
  /\ LET missing == missingFields(payload)
         r == [EmptyReq EXCEPT
                 !.caller = "notifyOwner",
                 !.payload = payload,
                 !.rawRequest = rawRequest,
                 !.qrId = payload.qrId,
                 !.requesterFingerprint = getRequesterFingerprint(rawRequest).fingerprint]
     IN IF Len(missing) > 0
        THEN /\ req' = [req EXCEPT ![p] =
                          [r EXCEPT !.error = [code |-> "invalid-argument",
                                               missingFields |-> missing]]]
             /\ pc' = [pc EXCEPT ![p] = "done"]
        ELSE /\ req' = [req EXCEPT ![p] =
                          [r EXCEPT !.cleanedMetadata = cleanMetadata(payload.metadata)]]
             /\ pc' = [pc EXCEPT ![p] = "resolve"]
  /\ UNCHANGED <<now, ticks, store, limiter>>

\* String(qrData.userId || qrMetadata.userId || cleanedMetadata.userId ||
\* payloadUserId).trim(), and the same for the vehicle id
resolveUserId(r) ==
  LET qrData == qrCodes(r.qrId)
  IN Trim(FirstTruthy(<<qrData.userId, Field(qrData.metadata, "userId"),
                        Field(r.cleanedMetadata, "userId"), r.payload.userId>>))

resolveVehicleId(r) ==
  LET qrData == qrCodes(r.qrId)
  IN Trim(FirstTruthy(<<qrData.vehicleId, Field(qrData.metadata, "vehicleId"),
                        Field(r.cleanedMetadata, "vehicleId"), r.payload.vehicleId>>))

resolveFcmToken_CallerFirst(r, userData) ==
  Trim(FirstTruthy(<<r.payload.fcmToken, userData.fcmToken, qrCodes(r.qrId).fcmToken>>))

\* String(userData.fcmToken || qrData.fcmToken || payloadFcmToken).trim()
resolveFcmToken(r, userData) ==
  Trim(FirstTruthy(<<userData.fcmToken, qrCodes(r.qrId).fcmToken, r.payload.fcmToken>>))

qrDocError_Lenient(qrData) ==
  IF ~qrData.exists THEN "not-found" ELSE "none"

\* the checks on the qrCodes document
qrDocError(qrData) ==
  IF ~qrData.exists THEN "not-found"
  ELSE IF ~qrData.isActive THEN "failed-precondition"
  ELSE "none"

\* the checks on the users document
userDocError(userData) ==
  IF ~userData.exists THEN "not-found"
  ELSE IF ~userData.notificationsEnabled THEN "failed-precondition"
  ELSE "none"

vehicleDocError_Strict(vehicleData, lookupFails) ==
  IF lookupFails THEN "internal"
  ELSE IF vehicleData.exists /\ (~vehicleData.isActive \/ ~vehicleData.notificationsEnabled)
       THEN "failed-precondition"
  ELSE "none"

\* the inner try block around the vehicle lookup: only the HttpsError it
\* throws itself leaves it, a failed read is logged and skipped
vehicleDocError(vehicleData, lookupFails) ==
  IF /\ ~lookupFails
     /\ vehicleData.exists
     /\ (~vehicleData.isActive \/ ~vehicleData.notificationsEnabled)
  THEN "failed-precondition"
  ELSE "none"

\* the outcome of the lookups of the try block up to the call of
\* enforceRateLimits: an error, or the resolved ids and token
resolution(r, userDocs, vehicleLookupFails) ==
  LET qrData == qrCodes(r.qrId)
      resolvedUserId == resolveUserId(r)
      resolvedVehicleId == resolveVehicleId(r)
      userData == IF resolvedUserId \in DOMAIN userDocs
                  THEN userDocs[resolvedUserId] ELSE NoDoc
      vehicleData == vehicles(resolvedUserId, resolvedVehicleId)
      resolvedFcmToken == resolveFcmToken(r, userData)
      ids == [userId |-> resolvedUserId, vehicleId |-> resolvedVehicleId, fcmToken |-> ""]
      fail(code, found, lookedUp) ==
        [error |-> httpsError(code), resolved |-> found, vehicleLookup |-> lookedUp]
      none == [userId |-> "", vehicleId |-> "", fcmToken |-> ""]
  IN IF qrDocError(qrData) # "none" THEN fail(qrDocError(qrData), none, FALSE)
     ELSE IF resolvedUserId = "" THEN fail("failed-precondition", ids, FALSE)
     ELSE IF userDocError(userData) # "none"
          THEN fail(userDocError(userData), ids, FALSE)
     ELSE IF /\ resolvedVehicleId # ""
             /\ vehicleDocError(vehicleData, vehicleLookupFails) # "none"
          THEN fail(vehicleDocError(vehicleData, vehicleLookupFails), ids, TRUE)
     ELSE IF resolvedFcmToken = ""
          THEN fail("failed-precondition", ids, resolvedVehicleId # "")
     ELSE [error |-> NoError,
           resolved |-> [ids EXCEPT !.fcmToken = resolvedFcmToken],
           vehicleLookup |-> resolvedVehicleId # ""]

afterResolve_SkipLimiter(error) == IF error # NoError THEN "done" ELSE "send"

afterResolve_CheckAnyway(error) == "txn"

\* a throw inside the try block ends the request in the catch block,
\* otherwise enforceRateLimits is entered
afterResolve(error) == IF error # NoError THEN "done" ELSE "txn"

\* the lookups of the try block; on success the metadata is completed and
\* enforceRateLimits is entered (Date.now() is read before its transaction)
Resolve(p, vehicleLookupFails) ==
  /\ pc[p] = "resolve"
  /\ LET r == req[p]
         res == resolution(r, users, vehicleLookupFails)
         found == [r EXCEPT !.resolvedUserId = res.resolved.userId,
                            !.resolvedVehicleId = res.resolved.vehicleId,
                            !.resolvedFcmToken = res.resolved.fcmToken,
                            !.vehicleLookupFailed = res.vehicleLookup /\ vehicleLookupFails]
         merged == [k \in DOMAIN r.cleanedMetadata \cup {"userId"}
                      \cup (IF res.resolved.vehicleId # "" THEN {"vehicleId"} ELSE {}) |->
                      IF k = "userId" THEN res.resolved.userId
                      ELSE IF k = "vehicleId" /\ res.resolved.vehicleId # ""
                           THEN res.resolved.vehicleId
                      ELSE r.cleanedMetadata[k]]
     IN /\ req' = [req EXCEPT ![p] =
                     IF res.error # NoError
                     THEN [found EXCEPT !.error = rethrown(r, res.error)]
                     ELSE [found EXCEPT !.cleanedMetadata = merged, !.nowMs = now]]
        /\ pc' = [pc EXCEPT ![p] = afterResolve(res.error)]
  /\ UNCHANGED <<now, ticks, started, store, limiter>>

\* const dataPayload = { qrId, userId, vehicleId?, source, ...cleanedMetadata }
dataPayload(r) ==
  LET base == [k \in {"qrId", "userId", "source"}
                 \cup (IF r.resolvedVehicleId # "" THEN {"vehicleId"} ELSE {}) |->
                 CASE k = "qrId" -> r.qrId
                   [] k = "userId" -> r.resolvedUserId
                   [] k = "vehicleId" -> r.resolvedVehicleId
                   [] k = "source" -> "avahanaa-web"]
  IN r.cleanedMetadata @@ base

message(r) ==
  [token |-> r.resolvedFcmToken,
   notification |-> [title |-> r.payload.title, body |-> r.payload.body],
   data |-> dataPayload(r)]

notificationRecord(r) ==
  [qrCodeId |-> r.qrId,
   userId |-> r.resolvedUserId,
   vehicleId |-> r.resolvedVehicleId,
   reason |-> IF Field(r.cleanedMetadata, "reason") # ""
              THEN r.cleanedMetadata["reason"] ELSE "other",
   message |-> IF Field(r.cleanedMetadata, "message") # ""
               THEN r.cleanedMetadata["message"] ELSE r.payload.body,
   status |-> "sent",
   read |-> FALSE,
   readAt |-> "null"]

internalError_Passthrough(failure) == httpsError(failure)

\* the last throw of the catch block: an error that is neither an invalid
\* token nor an HttpsError is wrapped as internal
internalError(failure) == httpsError("internal")

SendOutcomes == {"ok", "registration-token-not-registered", "unavailable"}

afterSend_Swallow(outcome) == "log"

afterSend_CleanupAll(outcome) == IF outcome = "ok" THEN "log" ELSE "cleanup"

afterSend_Retry(outcome) ==
  CASE outcome = "ok" -> "log"
    [] outcome = "registration-token-not-registered" -> "cleanup"
    [] OTHER -> "send"

\* where control goes after await messaging.send(message)
afterSend(outcome) ==
  CASE outcome = "ok" -> "log"
    [] outcome = "registration-token-not-registered" -> "cleanup"
    [] OTHER -> "done"

\* await messaging.send(message), and the catch block for a failure that
\* is not an invalid token
Send(p, outcome) ==
  /\ pc[p] = "send"
  /\ sent' = IF outcome = "ok" THEN Append(sent, message(req[p])) ELSE sent
  /\ req' = [req EXCEPT ![p].gateway = Append(@, outcome),
                        ![p].sendAcked = (outcome = "ok"),
                        ![p].error = IF afterSend(outcome) = "done"
                                     THEN internalError(outcome) ELSE NoError]
  /\ pc' = [pc EXCEPT ![p] = afterSend(outcome)]
  /\ UNCHANGED <<now, ticks, started, users, notifications, limiter>>

\* await firestore.collection("notifications").add(...), the return of the
\* result, and the catch block for a failed write
Log(p, ok) ==
  /\ pc[p] = "log"
  /\ IF ok
     THEN /\ notifications' = Append(notifications, notificationRecord(req[p]))
          /\ req' = [req EXCEPT ![p].appended = @ + 1,
                                ![p].result = [ok |-> TRUE,
                                               userId |-> req[p].resolvedUserId,
                                               vehicleId |-> req[p].resolvedVehicleId]]
     ELSE /\ req' = [req EXCEPT ![p].error = internalError("unavailable")]
          /\ UNCHANGED notifications
  /\ pc' = [pc EXCEPT ![p] = "done"]
  /\ UNCHANGED <<now, ticks, started, users, sent, limiter>>

\* the isInvalidToken branch of the catch block: the owner's token is
\* deleted (a failure of that write is only logged) and failed-precondition
\* is thrown
Cleanup(p, ok) ==
  /\ pc[p] = "cleanup"
  /\ users' = IF ok /\ req[p].resolvedUserId # ""
              THEN [users EXCEPT ![req[p].resolvedUserId].fcmToken = ""]
              ELSE users
  /\ req' = [req EXCEPT ![p].cleanup = IF ok THEN "cleared" ELSE "failed",
                        ![p].error = httpsError("failed-precondition")]
  /\ pc' = [pc EXCEPT ![p] = "done"]
  /\ UNCHANGED <<now, ticks, started, notifications, sent, limiter>>

Pipeline(p) ==
  /\ UNCHANGED acceptedAt
  /\ \/ \E v \in BOOLEAN : Resolve(p, v)
     \/ TxnRead(p)
     \/ TxnCommit(p)
     \/ \E o \in SendOutcomes : Send(p, o)
     \/ \E ok \in BOOLEAN : Log(p, ok)
     \/ \E ok \in BOOLEAN : Cleanup(p, ok)

\* the callers about to read Date.now(): notifyOwner reads it on entering
\* enforceRateLimits, a direct call of enforceRateLimits on its entry
Readers(procs) == { p \in procs : pc[p] = "resolve" }
Callers(procs) == { p \in procs : pc[p] \in {"idle", "done"} }

\* the requesters of the concurrent specifications: one without connection
\* context and one behind a proxy
ConcFingerprints == {"anonymous", "h_ip1_ua1"}
ConcRawRequests ==
  { rawRequest \in RawRequests :
      getRequesterFingerprint(rawRequest).fingerprint \in ConcFingerprints }

\* the payloads of the concurrent specification: a complete request for the
\* code qr1, one for a code that is not registered, one without title and body
ConcPayloads == { payload \in Payloads : payload.qrId # "qr2" }

Next ==
  /\ UNCHANGED acceptedAt
  /\ \/ \E d \in LongTickSteps : Tick(d, MaxPipelineTicks, Readers(Procs))
     \/ \E p \in Procs, payload \in ConcPayloads, rawRequest \in ConcRawRequests :
          Counted(MaxRequests) /\ Begin(p, payload, rawRequest)
     \/ \E p \in Procs : Pipeline(p)

\* concurrent notifyOwner requests
Spec == Init /\ [][Next]_vars

\* requests for the code qr1 and for a code that is not registered
SeqPayloads ==
  { payload \in Payloads : payload.qrId \in {"qr1", "qr9"} /\ payload.title # "" }

NextSeq ==
  /\ UNCHANGED acceptedAt
  /\ \/ \E d \in SeqTickSteps : Tick(d, MaxPipelineTicks, Readers({"p1"}))
     \/ \E payload \in SeqPayloads, rawRequest \in RawRequests :
          Counted(MaxSeqRequests) /\ Begin("p1", payload, rawRequest)
     \/ Resolve("p1", FALSE)
     \/ TxnRead("p1")
     \/ TxnCommit("p1")
     \/ Send("p1", "ok")
     \/ Log("p1", TRUE)

\* notifyOwner requests for one code, one after the other, with every
\* lookup, send and audit write succeeding
SpecSeq == Init /\ [][NextSeq]_vars

NextRL ==
  /\ UNCHANGED acceptedAt
  /\ \/ \E d \in ConcTickSteps : Tick(d, MaxTicks, Callers(Procs))
     \/ \E p \in Procs, f \in ConcFingerprints : UNCHANGED started /\ RLCall(p, "qr1", f)
     \/ \E p \in Procs : TxnRead(p)
     \/ \E p \in Procs : TxnCommit(p)

\* concurrent calls of enforceRateLimits for one code
SpecRL == Init /\ [][NextRL]_vars

NextRLSeq ==
  /\ UNCHANGED acceptedAt
  /\ \/ \E d \in SeqTickSteps : Tick(d, MaxSeqTicks, Callers({"p1"}))
     \/ \E f \in Fingerprints : UNCHANGED started /\ RLCall("p1", "qr1", f)
     \/ RLRetry("p1")
     \/ TxnRead("p1")
     \/ TxnCommit("p1")

\* calls of enforceRateLimits for one code, one after the other
SpecRLSeq == Init /\ [][NextRLSeq]_vars

NextRLCodes ==
  /\ UNCHANGED acceptedAt
  /\ \/ \E d \in LongTickSteps : Tick(d, MaxCodesTicks, Callers({"p1"}))
     \/ \E q \in QrIds \cup {""}, f \in ConcFingerprints :
          UNCHANGED started /\ RLCall("p1", q, f)
     \/ TxnRead("p1")
     \/ TxnCommit("p1")

\* calls of enforceRateLimits for two codes, one after the other
SpecRLCodes == Init /\ [][NextRLCodes]_vars

\* the codes of the store, a code that is not registered, and no code
ResolveQrIds == {"", "qr1", "qr2", "qr3", "qr4", "qr5", "qr6", "qr9", "qr10", "qr12"}

ResolvePayloads ==
  { [qrId |-> q, userId |-> u, fcmToken |-> t, vehicleId |-> v,
     title |-> "Alert", body |-> "Please move", metadata |-> m] :
      q \in ResolveQrIds \ {""}, u \in {"", "u1", " u1 "}, t \in {"", "tokP"},
      v \in {"", "v2", "v3"},
      m \in {NoMetadata,
             [userId |-> "u2", note |-> " ", reason |-> " lights ",
              count |-> JsSeven, ref |-> JsNull],
             [qrId |-> "qr2", source |-> "kiosk"]} }

\* requests with any of the three required fields empty
ValidationPayloads ==
  { [NoPayload EXCEPT !.qrId = q, !.title = t, !.body = b] :
      q \in {"", "qr1"}, t \in {"", "Alert"}, b \in {"", "Please move"} }

NextResolve ==
  /\ UNCHANGED acceptedAt
  /\ \/ \E payload \in ResolvePayloads \cup ValidationPayloads :
          Counted(MaxResolveRequests) /\ Begin("p1", payload, NoRequest)
     \/ Pipeline("p1")

\* single notifyOwner requests over every kind of code, owner and vehicle
\* record, with every outcome of the lookups, the send and the writes
SpecResolve == Init /\ [][NextResolve]_vars

(***************************************************************************)
(* The step at which a call of enforceRateLimits is decided, and the       *)
(* snapshots its decision was taken on.                                    *)
(***************************************************************************)
Rejects(p) == pc[p] = "txn" /\ pc'[p] = "done" /\ req'[p].decision = "rejected"
Commits(p) == pc[p] = "commit" /\ req'[p].decision = "accepted"
Decides(p) == Rejects(p) \/ Commits(p)

checksOf(r) == checks(r.qrId, r.requesterFingerprint)

SnapshotsAt(p) ==
  IF pc[p] = "txn"
  THEN [i \in 1..2 |-> counters[checksOf(req[p])[i].ref]]
  ELSE req[p].snapshots

Within(snap, nowMs, config) ==
  snap.exists /\ nowMs - snap.windowStart <= config.windowMs
Full(snap, nowMs, config) ==
  Within(snap, nowMs, config) /\ snap.count >= config.max
Expired(snap, nowMs, config) ==
  snap.exists /\ nowMs - snap.windowStart > config.windowMs

maxOf(ref) == IF ref[3] = "origin" THEN RATE_LIMIT_CONFIG.perOrigin.max
              ELSE RATE_LIMIT_CONFIG.perQr.max

RateLimited(p) == pc[p] = "done" /\ req[p].decision = "rejected"

\* C1 (as amended): an attempt that arrives within the window of a
\* scope's counter passes that scope's check while fewer than max attempts
\* are counted and fails it once max are counted; enforceRateLimits accepts
\* the attempt exactly when it passes both checks, and otherwise rejects it
\* with resource-exhausted naming the first scope that failed (so the 4th
\* attempt of one fingerprint within the window is rejected with origin).
C1_QuotaDecision ==
  [][\A p \in Procs : Decides(p) =>
       LET r == req[p]
           cs == checksOf(r)
           snaps == SnapshotsAt(p)
           full(i) == Full(snaps[i], r.nowMs, cs[i].config)
       IN /\ (req'[p].decision = "accepted") <=> ~(full(1) \/ full(2))
          /\ (full(1) \/ full(2)) => req'[p].error.code = "resource-exhausted"
          /\ full(1) => req'[p].error.scope = "origin"
          /\ (~full(1) /\ full(2)) => req'[p].error.scope = "qr"]_vars

\* C1 witness: the 4th attempt of one fingerprint, within 10 seconds of the
\* first and with no other traffic on the code, was rejected with origin.
C1_Witness ==
  \E p \in Procs :
    /\ RateLimited(p)
    /\ req[p].error.scope = "origin"
    /\ LET o == counters[perOriginRef(req[p].qrId, req[p].requesterFingerprint)]
           q == counters[perQrRef(req[p].qrId)]
       IN /\ o.count = 3 /\ q.count = 3
          /\ req[p].nowMs - o.windowStart <= 10 * MsPerSecond

\* C1 (original): the max-th attempt within the window of a key is accepted
\* by enforceRateLimits and the (max+1)-th is rejected.
C1_Original ==
  [][\A p \in Procs : Decides(p) =>
       \A i \in 1..2 :
         LET r == req[p]
             config == checksOf(r)[i].config
             snap == SnapshotsAt(p)[i]
         IN /\ (Within(snap, r.nowMs, config) /\ snap.count = config.max - 1)
                 => req'[p].decision = "accepted"
            /\ (Within(snap, r.nowMs, config) /\ snap.count = config.max)
                 => req'[p].decision = "rejected"]_vars

\* C2: under every interleaving each stored counter has 1 <= count <= max
\* of its scope, and no more than max attempts are committed in a window
\* (two requests never both take the last slot).
C2_QuotaSerialized ==
  \A ref \in Refs :
    /\ counters[ref].exists => (1 <= counters[ref].count /\ counters[ref].count <= maxOf(ref))
    /\ accepted[ref] <= maxOf(ref)

\* C2 witness: a request read a counter with one slot left and, before it
\* committed, another request took the slot.
C2_Witness ==
  \E p \in Procs :
    /\ pc[p] = "commit"
    /\ req[p].snapshots[1].exists
    /\ req[p].snapshots[1].count = RATE_LIMIT_CONFIG.perOrigin.max - 1
    /\ counters[checksOf(req[p])[1].ref].count = RATE_LIMIT_CONFIG.perOrigin.max

\* C3: a rejection with resource-exhausted changes no counter: count,
\* windowStart and updatedAt of both counters of the attempt stay as they
\* were, also when the per-origin check passed and the per-code check failed.
C3_RejectionWritesNothing ==
  [][\A p \in Procs : Rejects(p) => counters' = counters]_vars

\* C3 witness: an attempt whose per-origin check passed was rejected by the
\* per-code quota.
C3_Witness ==
  \E p \in Procs :
    /\ RateLimited(p)
    /\ req[p].error.scope = "qr"
    /\ ~Full(counters[perOriginRef(req[p].qrId, req[p].requesterFingerprint)],
             req[p].nowMs, RATE_LIMIT_CONFIG.perOrigin)

\* C4: every counter's count is the number of attempts committed for its
\* key since its windowStart was set, the resetting attempt included.
C4_CountIsAcceptedAttempts ==
  \A ref \in Refs :
    IF counters[ref].exists THEN counters[ref].count = accepted[ref]
    ELSE accepted[ref] = 0

\* C4 witness: a transaction that was run again after a conflict has
\* committed its increment on top of the other request's.
C4_Witness ==
  \E p \in Procs :
    /\ req[p].decision = "accepted"
    /\ req[p].rerun
    /\ counters[perQrRef(req[p].qrId)].count >= 2

\* C5 (as amended): an attempt that arrives more than the window after a
\* scope's windowStart passes that scope's check; it is rejected only when
\* the other scope is exhausted, and when it is accepted that counter is
\* reset to count = 1 with windowStart = now.
C5_ExpiredWindowResets ==
  [][\A p \in Procs : Decides(p) =>
       \A i \in 1..2 :
         LET r == req[p]
             cs == checksOf(r)
             snaps == SnapshotsAt(p)
             other == 3 - i
         IN Expired(snaps[i], r.nowMs, cs[i].config) =>
              /\ req'[p].decision = "rejected" =>
                   /\ req'[p].error.scope = cs[other].config.scope
                   /\ Full(snaps[other], r.nowMs, cs[other].config)
              /\ req'[p].decision = "accepted" =>
                   /\ counters'[cs[i].ref].count = 1
                   /\ counters'[cs[i].ref].windowStart = r.nowMs]_vars

\* C5 witness: the per-code counter of a code was reset by an accepted
\* attempt that came more than the window after its windowStart.
C5_Witness ==
  \E p \in Procs :
    /\ pc[p] = "done" /\ req[p].decision = "accepted"
    /\ LET q == counters[perQrRef(req[p].qrId)]
       IN /\ q.count = 1 /\ q.windowStart = req[p].nowMs
          /\ \E f \in Fingerprints :
               LET o == counters[perOriginRef(req[p].qrId, f)]
               IN o.exists /\ req[p].nowMs - o.windowStart > RATE_LIMIT_CONFIG.perQr.windowMs

\* C5 (original): an attempt that arrives more than the window after a
\* scope's windowStart is accepted and resets that counter to count = 1,
\* windowStart = now.
C5_Original ==
  [][\A p \in Procs : Decides(p) =>
       \A i \in 1..2 :
         LET r == req[p]
             cs == checksOf(r)
         IN Expired(SnapshotsAt(p)[i], r.nowMs, cs[i].config) =>
              /\ req'[p].decision = "accepted"
              /\ counters'[cs[i].ref].count = 1
              /\ counters'[cs[i].ref].windowStart = r.nowMs]_vars

\* C6: a caller rejected by a scope at time t with retryAfterSeconds = r
\* that calls again at a time >= t + r seconds is not rejected by that
\* scope.
C6_RetryAfterDelayPasses ==
  \A p \in Procs :
    ( /\ pc[p] = "done"
      /\ req[p].retryOf.at >= 0
      /\ req[p].nowMs >= req[p].retryOf.at + req[p].retryOf.retry * MsPerSecond )
    => ~(req[p].decision = "rejected" /\ req[p].error.scope = req[p].retryOf.scope)

\* C7: every resource-exhausted failure carries an integer
\* retryAfterSeconds >= 5 and the scope of the exhausted quota: origin for
\* the per-origin quota, qr (the spec's code scope) for the per-code quota.
C7_RetryGuidance ==
  \A p \in Procs :
    (pc[p] = "done" /\ req[p].error.code = "resource-exhausted") =>
      /\ req[p].error.retryAfterSeconds \in Int
      /\ req[p].error.retryAfterSeconds >= 5
      /\ req[p].error.scope \in {"origin", "qr"}
      /\ req[p].error.scope = "origin" <=>
           Full(counters[perOriginRef(req[p].qrId, req[p].requesterFingerprint)],
                req[p].nowMs, RATE_LIMIT_CONFIG.perOrigin)

\* C7 witness: a rejection at the very end of the window, where the
\* remaining time rounds to less than 5 seconds.
C7_Witness ==
  \E p \in Procs :
    /\ RateLimited(p)
    /\ req[p].caller = "notifyOwner"
    /\ req[p].error.scope = "origin"
    /\ req[p].error.retryAfterSeconds = 5
    /\ elapsedMs(counters[perOriginRef(req[p].qrId, req[p].requesterFingerprint)],
                 req[p].nowMs) = RATE_LIMIT_CONFIG.perOrigin.windowMs

\* C8: the quotas are independent: an attempt whose own per-origin counter
\* and whose per-code counter are not exhausted is accepted whatever the
\* other fingerprints' counters hold, a rejected attempt leaves the
\* per-code count as it was, and an attempt on one code changes no counter
\* of another code.
C8_ScopesIndependent ==
  [][/\ \A p \in Procs : Decides(p) =>
          LET r == req[p]
              cs == checksOf(r)
              snaps == SnapshotsAt(p)
          IN /\ ( /\ snapCount(snaps[1]) < RATE_LIMIT_CONFIG.perOrigin.max
                  /\ snapCount(snaps[2]) < RATE_LIMIT_CONFIG.perQr.max )
                  => req'[p].decision = "accepted"
             /\ req'[p].decision = "rejected" =>
                  counters'[perQrRef(r.qrId)] = counters[perQrRef(r.qrId)]
             /\ \A ref \in Refs : ref[2] # r.qrId => counters'[ref] = counters[ref]
     /\ (\A p \in Procs : ~Decides(p)) => counters' = counters]_vars

\* C8 witness: with one fingerprint's per-origin quota on a code exhausted,
\* another fingerprint was accepted on that code, and the other code has
\* counters of its own.
C8_Witness ==
  \E p \in Procs :
    /\ pc[p] = "done" /\ req[p].decision = "accepted"
    /\ req[p].qrId = "qr1" /\ req[p].requesterFingerprint = "h_ip1_ua1"
    /\ Full(counters[perOriginRef("qr1", "anonymous")], req[p].nowMs,
            RATE_LIMIT_CONFIG.perOrigin)
    /\ snapCount(counters[perQrRef("qr1")]) = 4
    /\ counters[perQrRef("qr2")].exists

\* C9 (as amended): a request without connection context gets the sentinel
\* fingerprint anonymous, and the context-less requests of a code share
\* the per-origin counter keyed by the code and anonymous: each one that
\* passes the rate check is counted there, within the per-origin max of 3.
C9_AnonymousSharesOrigin ==
  \A p \in Procs :
    (req[p].caller = "notifyOwner" /\ ~req[p].rawRequest.present) =>
      /\ req[p].requesterFingerprint = "anonymous"
      /\ getRequesterFingerprint(req[p].rawRequest).ip = "unknown"
      /\ req[p].decision = "accepted" =>
           LET o == counters[perOriginRef(req[p].qrId, "anonymous")]
           IN o.exists /\ 1 <= o.count /\ o.count <= 3 /\ o.updatedAt = req[p].nowMs

\* C9 witness: the 4th context-less request for a code within the window
\* was rejected by the per-origin quota.
C9_Witness ==
  \E p \in Procs :
    /\ RateLimited(p)
    /\ req[p].caller = "notifyOwner" /\ ~req[p].rawRequest.present
    /\ req[p].error.scope = "origin"
    /\ counters[perQrRef(req[p].qrId)].count = 3

\* C9 (original): context-less requests get the sentinel identity and are
\* limited by the per-code quota only, never by a per-origin quota.
C9_Original ==
  \A p \in Procs :
    (req[p].caller = "notifyOwner" /\ ~req[p].rawRequest.present) =>
      /\ req[p].requesterFingerprint = "anonymous"
      /\ req[p].decision = "rejected" => req[p].error.scope = "qr"

\* C10: a NotificationRecord is appended only after the gateway
\* acknowledged the send of the same request: there are never more records
\* than acknowledged sends, a request that returns success has appended
\* exactly one record (status sent, read false), and a request whose send
\* was not acknowledged has appended none.
C10_AuditAfterAck ==
  /\ Len(notifications) <= Len(sent)
  /\ \A i \in 1..Len(notifications) :
       notifications[i].status = "sent" /\ notifications[i].read = FALSE
  /\ \A p \in Procs :
       /\ req[p].result.ok => (req[p].appended = 1 /\ req[p].sendAcked)
       /\ ~req[p].sendAcked => req[p].appended = 0
       /\ req[p].appended <= 1

\* C10 witness: one request returned success with its record, another was
\* sent and acknowledged but its audit write failed.
C10_Witness ==
  /\ Len(sent) = 2
  /\ Len(notifications) = 1
  /\ \E p \in Procs : pc[p] = "done" /\ req[p].result.ok /\ req[p].appended = 1
  /\ \E p \in Procs : pc[p] = "done" /\ req[p].sendAcked /\ req[p].appended = 0
                      /\ req[p].error.code = "internal"

(***************************************************************************)
(* What the gateway answered to the send of a request, and where a         *)
(* finished request failed.                                                *)
(***************************************************************************)
GatewaySaid(r, outcome) ==
  Len(r.gateway) > 0 /\ r.gateway[Len(r.gateway)] = outcome

Finished(p) == pc[p] = "done" /\ req[p].caller = "notifyOwner"

\* C11: when the gateway answers registration-token-not-registered the
\* token stored on the resolved owner's record is cleared and the caller
\* gets failed-precondition, also when the clearing write fails; no other
\* failure starts the cleanup and nothing else writes an owner record.
C11_StaleTokenCleanup ==
  [][/\ \A p \in Procs :
          /\ (pc[p] = "send" /\ GatewaySaid(req'[p], "registration-token-not-registered"))
               => pc'[p] = "cleanup"
          /\ (pc[p] # "cleanup" /\ pc'[p] = "cleanup")
               => /\ pc[p] = "send"
                  /\ GatewaySaid(req'[p], "registration-token-not-registered")
          /\ pc[p] = "cleanup" =>
               /\ pc'[p] = "done"
               /\ req'[p].error = [code |-> "failed-precondition"]
               /\ req'[p].cleanup \in {"cleared", "failed"}
               /\ req'[p].cleanup = "cleared" =>
                    users' = [users EXCEPT ![req[p].resolvedUserId].fcmToken = ""]
               /\ req'[p].cleanup = "failed" => users' = users
               /\ UNCHANGED <<notifications, sent, counters>>
     /\ users' # users => \E p \in Procs : pc[p] = "cleanup"]_vars

\* C11 witness: after an invalid-token answer the owner's stored token is
\* gone and the request ended with failed-precondition.
C11_Witness ==
  \E p \in Procs :
    /\ Finished(p)
    /\ GatewaySaid(req[p], "registration-token-not-registered")
    /\ req[p].cleanup = "cleared"
    /\ req[p].resolvedFcmToken = "tokU1"
    /\ users[req[p].resolvedUserId].fcmToken = ""
    /\ req[p].error.code = "failed-precondition"

\* C12: a send failure other than an invalid token, and a failure of the
\* audit write after an acknowledged send, both end the request with
\* internal; in the audit case the push is already sent, no record was
\* written for it and the owner's token is as it was.
C12_InternalFailures ==
  [][\A p \in Procs :
       /\ (pc[p] = "send" /\ GatewaySaid(req'[p], "unavailable")) =>
            /\ pc'[p] = "done"
            /\ req'[p].error = [code |-> "internal"]
            /\ ~req'[p].sendAcked
            /\ UNCHANGED <<users, notifications, sent>>
       /\ (pc[p] = "log" /\ ~req'[p].result.ok) =>
            /\ pc'[p] = "done"
            /\ req'[p].error = [code |-> "internal"]
            /\ req'[p].sendAcked
            /\ \E i \in 1..Len(sent') : sent'[i] = message(req[p])
            /\ req'[p].appended = 0
            /\ UNCHANGED <<users, notifications, sent>>]_vars

\* C12 witness: a request ended with internal after its push was sent and
\* the audit write failed; the owner still has the token.
C12_Witness ==
  \E p \in Procs :
    /\ Finished(p)
    /\ req[p].error.code = "internal"
    /\ req[p].sendAcked /\ req[p].appended = 0
    /\ Len(sent) = 1 /\ Len(notifications) = 0
    /\ req[p].resolvedFcmToken = "tokU1"
    /\ users[req[p].resolvedUserId].fcmToken = "tokU1"

\* C13: a failure thrown by the lookups or by the rate limiter ends the
\* request at once with the kind it was thrown with (not-found,
\* failed-precondition or resource-exhausted, never internal): no message
\* was handed to the gateway, no record is written and no owner record is
\* changed.
C13_DomainFailureShortCircuits ==
  [][\A p \in Procs : req[p].caller = "notifyOwner" =>
       /\ (pc[p] = "resolve" /\ pc'[p] \notin {"resolve", "txn"}) =>
            /\ pc'[p] = "done"
            /\ req'[p].error.code \in {"not-found", "failed-precondition"}
       /\ (pc[p] = "txn" /\ pc'[p] \notin {"txn", "commit"}) =>
            /\ pc'[p] = "done"
            /\ req'[p].error.code = "resource-exhausted"
       /\ (pc[p] \in {"resolve", "txn"} /\ pc'[p] = "done") =>
            /\ req'[p].gateway = <<>> /\ ~req'[p].sendAcked
            /\ req'[p].appended = 0
            /\ ~req'[p].result.ok
            /\ UNCHANGED <<sent, notifications, users, counters>>]_vars

\* C13 witness: after three delivered requests a fourth was rejected by
\* the rate limiter and ended with resource-exhausted, nothing sent for it.
C13_Witness ==
  \E p \in Procs :
    /\ Finished(p)
    /\ req[p].error.code = "resource-exhausted"
    /\ req[p].gateway = <<>>
    /\ Len(sent) = 3 /\ Len(notifications) = 3

RequiredFields == {"qrId", "title", "body"}
Starts(p) == pc[p] \in {"idle", "done"} /\ req'[p] # req[p]

\* C14: a request fails with invalid-argument exactly when its qrId, title
\* or body is empty; the error lists exactly the empty ones of the three;
\* an absent userId, fcmToken or vehicleId does not matter; and the
\* request ends there, before any lookup, counter update, send or record.
C14_RequiredFields ==
  [][\A p \in Procs : (Starts(p) /\ req'[p].caller = "notifyOwner") =>
       LET payload == req'[p].payload
           empty == { f \in RequiredFields : payload[f] = "" }
           error == req'[p].error
       IN /\ (error.code = "invalid-argument") <=> (empty # {})
          /\ empty # {} =>
               /\ pc'[p] = "done"
               /\ { error.missingFields[i] : i \in 1..Len(error.missingFields) } = empty
               /\ Len(error.missingFields) = Cardinality(empty)
               /\ UNCHANGED <<counters, users, notifications, sent>>
          /\ empty = {} => (pc'[p] = "resolve" /\ error = NoError)]_vars

\* C14 witness: a request naming a code but with no title and no body
\* ended with invalid-argument listing title and body, the store untouched.
C14_Witness ==
  \E p \in Procs :
    /\ Finished(p)
    /\ req[p].payload.qrId = "qr1"
    /\ req[p].error.code = "invalid-argument"
    /\ req[p].error.missingFields = <<"title", "body">>
    /\ \A ref \in Refs : ~counters[ref].exists
    /\ sent = <<>> /\ notifications = <<>>

\* a request leaves the lookups, having read an active code record
Resolved(p) ==
  /\ pc[p] = "resolve" /\ pc'[p] # "resolve"
  /\ qrCodes(req[p].qrId).exists /\ qrCodes(req[p].qrId).isActive

\* the first element of a sequence of strings that is non-empty, else ""
RECURSIVE FirstNonEmpty(_)
FirstNonEmpty(strings) ==
  IF strings = <<>> THEN ""
  ELSE IF Head(strings) # "" THEN Head(strings)
  ELSE FirstNonEmpty(Tail(strings))

\* C15: the resolved owner id is the first of the code record's userId,
\* the code record's metadata userId, the caller's metadata userId and the
\* caller's userId that is non-empty after trimming; the lookups fail for
\* want of an owner (failed-precondition) only when all four are empty
\* after trimming.
C15_OwnerPrecedence ==
  [][\A p \in Procs : Resolved(p) =>
       LET qrData == qrCodes(req[p].qrId)
           payload == req[p].payload
           owner == FirstNonEmpty(<<Trim(qrData.userId),
                                    Trim(Field(qrData.metadata, "userId")),
                                    Trim(Field(payload.metadata, "userId")),
                                    Trim(payload.userId)>>)
       IN /\ req'[p].resolvedUserId = owner
          /\ owner = "" => (pc'[p] = "done" /\ req'[p].error.code = "failed-precondition")]_vars

\* the owner record a request resolved to, as the lookups read it
OwnerDoc(p) ==
  IF req'[p].resolvedUserId \in DOMAIN users THEN users[req'[p].resolvedUserId]
  ELSE NoDoc

OwnerUsable(p) == OwnerDoc(p).exists /\ OwnerDoc(p).notificationsEnabled

\* C16: the token a request is dispatched with is the first non-empty of
\* the owner record's token, the code record's token and the caller's
\* token (surrounding whitespace removed); the caller's token is used only
\* when both stored tokens are empty; with all three empty the lookups
\* fail with failed-precondition; and the message handed to the gateway
\* carries that token.
C16_TokenPrecedence ==
  [][\A p \in Procs :
       /\ (Resolved(p) /\ OwnerUsable(p)) =>
            LET stored == <<OwnerDoc(p).fcmToken, qrCodes(req[p].qrId).fcmToken>>
                supplied == req[p].payload.fcmToken
                token == req'[p].resolvedFcmToken
            IN /\ pc'[p] = "txn" =>
                    /\ token # ""
                    /\ token = Trim(FirstNonEmpty(stored \o <<supplied>>))
                    /\ FirstNonEmpty(stored) # "" => token = Trim(FirstNonEmpty(stored))
               /\ FirstNonEmpty(stored \o <<supplied>>) = "" =>
                    /\ pc'[p] = "done"
                    /\ req'[p].error.code = "failed-precondition"
       /\ (pc[p] = "send" /\ sent' # sent) =>
            /\ Len(sent') = Len(sent) + 1
            /\ sent'[Len(sent')].token = req[p].resolvedFcmToken]_vars

\* C16 witness: owner u2 and code qr12 store no token, and the push went
\* out with the token the caller supplied.
C16_Witness ==
  \E p \in Procs :
    /\ Finished(p) /\ req[p].result.ok
    /\ req[p].qrId = "qr12" /\ req[p].resolvedUserId = "u2"
    /\ users["u2"].fcmToken = "" /\ qrCodes("qr12").fcmToken = ""
    /\ Len(sent) = 1 /\ sent[1].token = "tokP"

\* C17: the lookups classify their failures: no code record is not-found,
\* an inactive code record is failed-precondition, no record for the
\* resolved owner is not-found, an owner with notifications disabled is
\* failed-precondition; and a request gets past the lookups only when none
\* of these is the case.
C17_ResolutionFailures ==
  [][\A p \in Procs : (pc[p] = "resolve" /\ pc'[p] # "resolve") =>
       LET qrData == qrCodes(req[p].qrId)
           usable == qrData.exists /\ qrData.isActive
           code == req'[p].error.code
       IN /\ ~qrData.exists => (pc'[p] = "done" /\ code = "not-found")
          /\ (qrData.exists /\ ~qrData.isActive) =>
               (pc'[p] = "done" /\ code = "failed-precondition")
          /\ (usable /\ req'[p].resolvedUserId # "" /\ ~OwnerDoc(p).exists) =>
               (pc'[p] = "done" /\ code = "not-found")
          /\ (usable /\ OwnerDoc(p).exists /\ ~OwnerDoc(p).notificationsEnabled) =>
               (pc'[p] = "done" /\ code = "failed-precondition")
          /\ pc'[p] = "txn" =>
               /\ usable
               /\ OwnerDoc(p).exists /\ OwnerDoc(p).notificationsEnabled
               /\ code = "none"]_vars

\* C17 witness: the owner of code qr6 has disabled notifications and the
\* request ended with failed-precondition.
C17_Witness ==
  \E p \in Procs :
    /\ Finished(p)
    /\ req[p].qrId = "qr6" /\ req[p].resolvedUserId = "u4"
    /\ ~users["u4"].notificationsEnabled
    /\ req[p].error.code = "failed-precondition"
    /\ req[p].gateway = <<>>

\* C18: the vehicle check is best-effort: when a vehicle id resolved and
\* the vehicle's sub-record is read and has isActive or
\* notificationsEnabled false, the request fails with failed-precondition;
\* when the sub-record does not exist or its read fails, the request goes
\* on as it would without a vehicle: it passes the lookups exactly when a
\* token is available.
C18_VehicleCheckBestEffort ==
  [][\A p \in Procs :
       (Resolved(p) /\ OwnerUsable(p) /\ req'[p].resolvedVehicleId # "") =>
         LET vehicleData == vehicles(req'[p].resolvedUserId, req'[p].resolvedVehicleId)
             disabled == /\ vehicleData.exists
                         /\ (~vehicleData.isActive \/ ~vehicleData.notificationsEnabled)
             token == Trim(FirstNonEmpty(<<OwnerDoc(p).fcmToken,
                                           qrCodes(req[p].qrId).fcmToken,
                                           req[p].payload.fcmToken>>))
         IN /\ (disabled /\ ~req'[p].vehicleLookupFailed) =>
                 (pc'[p] = "done" /\ req'[p].error.code = "failed-precondition")
            /\ (~vehicleData.exists \/ req'[p].vehicleLookupFailed) =>
                 /\ (pc'[p] = "txn") <=> (token # "")
                 /\ token # "" => (req'[p].error = NoError /\ req'[p].resolvedFcmToken = token)
                 /\ token = "" => req'[p].error.code = "failed-precondition"]_vars

\* C18 witness: the read of a disabled vehicle's sub-record failed and the
\* request was delivered all the same.
C18_Witness ==
  \E p \in Procs :
    /\ Finished(p) /\ req[p].result.ok
    /\ req[p].resolvedUserId = "u1" /\ req[p].resolvedVehicleId = "v2"
    /\ ~vehicles("u1", "v2").isActive
    /\ req[p].vehicleLookupFailed
    /\ Len(sent) = 1

\* the stage a request may enter next, from the stage it is in
NextStages(stage) ==
  CASE stage \in {"idle", "done"} -> {"resolve", "done"}
    [] stage = "resolve" -> {"txn", "done"}
    [] stage = "txn" -> {"commit", "done"}
    [] stage = "commit" -> {"txn", "send"}
    [] stage = "send" -> {"log", "cleanup", "done"}
    [] stage \in {"log", "cleanup"} -> {"done"}

\* C19: a request passes validation, the lookups, the rate limiter, the
\* send and the audit write in that order: a message is handed to the
\* gateway only when the request's fields were present, its owner and
\* token resolved and its own rate-limit transaction committed, and the
\* success result, which carries the resolved ids, is set only with the
\* audit record written.
C19_StageOrder ==
  [][\A p \in Procs : req'[p].caller = "notifyOwner" =>
       /\ pc'[p] # pc[p] => pc'[p] \in NextStages(pc[p])
       /\ (pc'[p] \in {"send", "log", "cleanup"} \/ req'[p].gateway # <<>>) =>
            /\ \A f \in RequiredFields : req'[p].payload[f] # ""
            /\ req'[p].resolvedUserId # "" /\ req'[p].resolvedFcmToken # ""
            /\ req'[p].decision = "accepted" /\ req'[p].commits = 1
       /\ sent' # sent => \E q \in Procs : pc[q] = "send" /\ req[q].decision = "accepted"
       /\ pc'[p] = "log" => req'[p].sendAcked
       /\ req'[p].result.ok =>
            /\ pc'[p] = "done" /\ req'[p].sendAcked /\ req'[p].appended = 1
            /\ req'[p].result = [ok |-> TRUE, userId |-> req'[p].resolvedUserId,
                                 vehicleId |-> req'[p].resolvedVehicleId]
            /\ \E i \in 1..Len(notifications') :
                 /\ notifications'[i].qrCodeId = req'[p].qrId
                 /\ notifications'[i].userId = req'[p].resolvedUserId
       /\ (~req[p].result.ok /\ req'[p].result.ok) =>
            (pc[p] = "log" /\ Len(notifications') = Len(notifications) + 1)]_vars

\* C19 witness: a request returned {ok, u1, v1} after its counters were
\* written, its message sent and its record appended.
C19_Witness ==
  \E p \in Procs :
    /\ Finished(p)
    /\ req[p].result = [ok |-> TRUE, userId |-> "u1", vehicleId |-> "v1"]
    /\ counters[perQrRef(req[p].qrId)].exists
    /\ counters[perOriginRef(req[p].qrId, req[p].requesterFingerprint)].exists
    /\ \E i \in 1..Len(sent) : sent[i].data["userId"] = "u1"
    /\ \E i \in 1..Len(notifications) : notifications[i].userId = "u1"

\* C20: one request hands at most one message to the gateway, appends at
\* most one record and commits at most one increment or reset to each of
\* its two counters; a failed send and a failed audit write end the
\* request, they are not tried again.
C20_SingleAttempt ==
  [][/\ \A p \in Procs : req'[p].caller = "notifyOwner" =>
          /\ Len(req'[p].gateway) <= 1
          /\ req'[p].appended <= 1
          /\ req'[p].commits <= 1
          /\ (pc[p] = "send" /\ req'[p] # req[p] /\ ~req'[p].sendAcked) =>
               (pc'[p] \in {"cleanup", "done"} /\ sent' = sent)
          /\ (pc[p] = "log" /\ req'[p] # req[p]) => pc'[p] = "done"
          /\ (pc[p] = "commit" /\ req'[p].commits = req[p].commits + 1) =>
               \A ref \in Refs :
                 IF ref \in { checksOf(req[p])[i].ref : i \in 1..2 }
                 THEN counters'[ref].count \in {1, snapCount(counters[ref]) + 1}
                 ELSE counters'[ref] = counters[ref]
          /\ (pc[p] = "commit" /\ pc'[p] = "txn") => counters' = counters
     /\ Len(sent') <= started'
     /\ Len(notifications') <= Len(sent')
     /\ Len(sent') <= Len(sent) + 1
     /\ Len(notifications') <= Len(notifications) + 1]_vars

\* C20 witness: a request whose transaction was run again after a
\* conflict committed once, made one send that failed, and ended.
C20_Witness ==
  \E p \in Procs :
    /\ Finished(p)
    /\ req[p].rerun /\ req[p].commits = 1
    /\ req[p].gateway = <<"unavailable">>
    /\ req[p].error.code = "internal"
    /\ req[p].appended = 0


(***************************************************************************)
(* Termination of notifyOwner.                                             *)
(***************************************************************************)
NextLive ==
  /\ UNCHANGED acceptedAt
  /\ \/ \E p \in Procs, payload \in ConcPayloads :
          Counted(MaxRequests) /\ Begin(p, payload, NoRequest)
     \/ \E p \in Procs : Pipeline(p)

\* concurrent notifyOwner requests in which every awaited call completes:
\* a request that is waiting for a lookup, the transaction, the send or a
\* write eventually gets the result or the failure of that call
SpecLive == Init /\ [][NextLive]_vars /\ \A p \in Procs : WF_vars(Pipeline(p))

ErrorKinds ==
  {"invalid-argument", "not-found", "failed-precondition", "resource-exhausted",
   "internal"}

Running(p) == pc[p] \notin {"idle", "done"}

OneOutcome(r) ==
  \/ r.result.ok /\ r.error = NoError
  \/ ~r.result.ok /\ r.error.code \in ErrorKinds

\* C21: every notifyOwner invocation terminates when each awaited call
\* returns or fails, and it ends with exactly one outcome: the success
\* result, or one error whose kind is invalid-argument, not-found,
\* failed-precondition, resource-exhausted or internal.
C21_Terminates ==
  /\ \A p \in Procs : Running(p) ~> (pc[p] = "done")
  /\ [](\A p \in Procs : pc[p] = "done" => OneOutcome(req[p]))
  /\ [](\A p \in Procs : Running(p) => (~req[p].result.ok /\ req[p].error = NoError))

\* C21 witness: a request whose transaction was run again after a conflict
\* with a concurrent request has ended with the success result.
C21_Witness ==
  \E p \in Procs : pc[p] = "done" /\ req[p].rerun /\ req[p].result.ok

(***************************************************************************)
(* The metadata of a request.                                              *)
(***************************************************************************)
\* the lookups of the request succeeded: its ids and token are resolved
Merged(p) == req[p].caller = "notifyOwner" /\ req[p].resolvedFcmToken # ""

IsString(value) == value \notin {JsNull, JsSeven}

\* the entry of the caller's metadata under key k survives the cleaning
Kept(metadata, k) ==
  /\ k \in DOMAIN metadata
  /\ metadata[k] # JsNull
  /\ Trim(String(metadata[k])) # ""

IdKeys == {"userId", "vehicleId"}

\* C22 (as amended): the merged metadata is the caller's metadata map
\* without the entries whose value is absent (null) or whose string form is
\* empty after trimming; every other value is kept as its trimmed string
\* form, a value that is not a string included (the number 7 as "7"); and
\* the result carries the resolved owner id under userId and, when it is
\* non-empty, the resolved vehicle id under vehicleId.
C22_MergedMetadata ==
  \A p \in Procs :
    LET r == req[p]
        metadata == r.payload.metadata
        cleaned == r.cleanedMetadata
        asCleaned(keys) ==
          \A k \in keys :
            /\ k \in DOMAIN cleaned <=> Kept(metadata, k)
            /\ Kept(metadata, k) => cleaned[k] = Trim(String(metadata[k]))
    IN /\ (pc[p] = "resolve") => asCleaned(DOMAIN metadata \cup DOMAIN cleaned)
       /\ Merged(p) =>
            /\ asCleaned((DOMAIN metadata \cup DOMAIN cleaned) \ IdKeys)
            /\ "userId" \in DOMAIN cleaned /\ cleaned["userId"] = r.resolvedUserId
            /\ IF r.resolvedVehicleId # ""
               THEN "vehicleId" \in DOMAIN cleaned
                    /\ cleaned["vehicleId"] = r.resolvedVehicleId
               ELSE asCleaned({"vehicleId"})

\* C22 witness: a request whose metadata held a blank note, a null, a
\* padded reason, the number 7 and an owner id other than the code's owner
\* has passed the lookups: the note and the null are gone, the reason is
\* trimmed, the number is kept as "7" and userId is the code's owner.
C22_Witness ==
  \E p \in Procs :
    /\ Merged(p)
    /\ Field(req[p].payload.metadata, "userId") = "u2"
    /\ DOMAIN req[p].cleanedMetadata = {"userId", "vehicleId", "reason", "count"}
    /\ req[p].cleanedMetadata["count"] = "7"
    /\ req[p].cleanedMetadata["reason"] = "lights"
    /\ req[p].cleanedMetadata["userId"] = "u1"
    /\ req[p].cleanedMetadata["vehicleId"] = "v1"

\* C22 (original): only the non-empty string values of the caller's
\* metadata are kept; an entry whose value is not a string is dropped.
C22_Original ==
  \A p \in Procs :
    Merged(p) =>
      \A k \in DOMAIN req[p].payload.metadata \ IdKeys :
        k \in DOMAIN req[p].cleanedMetadata <=>
          (IsString(req[p].payload.metadata[k]) /\ Trim(req[p].payload.metadata[k]) # "")

(***************************************************************************)
(* The requester's address and the per-origin counter.                     *)
(***************************************************************************)
NextOrigin ==
  /\ UNCHANGED acceptedAt
  /\ \/ \E d \in LongTickSteps : Tick(d, MaxPipelineTicks, Readers({"p1"}))
     \/ \E payload \in SeqPayloads, rawRequest \in OriginRawRequests :
          /\ payload.qrId = "qr1"
          /\ Counted(MaxSeqRequests)
          /\ Begin("p1", payload, rawRequest)
     \/ Resolve("p1", FALSE)
     \/ TxnRead("p1")
     \/ TxnCommit("p1")
     \/ Send("p1", "ok")
     \/ Log("p1", TRUE)

\* notifyOwner requests for the code qr1, one after the other, from
\* several connection contexts, with every lookup, send and write succeeding
SpecOrigin == Init /\ [][NextOrigin]_vars

\* the address a connection context stands for: the first hop of the
\* forwarded-for header, else the peer address, else unknown
FirstHop(rawRequest) ==
  IF Len(rawRequest.forwardedFor) > 0 THEN rawRequest.forwardedFor[1] ELSE ""
PeerAddress(rawRequest) ==
  IF rawRequest.ip # "" THEN rawRequest.ip ELSE rawRequest.remoteAddress
RequesterIp(rawRequest) ==
  IF FirstHop(rawRequest) # "" THEN FirstHop(rawRequest)
  ELSE IF PeerAddress(rawRequest) # "" THEN PeerAddress(rawRequest)
  ELSE "unknown"
RequesterAgent(rawRequest) ==
  IF rawRequest.userAgent # "" THEN rawRequest.userAgent ELSE "unknown"

\* C23: the requester ip of a request with connection context is the first
\* hop of the forwarded-for header when there is one, else the peer
\* address, else unknown; the fingerprint is the digest of that ip and the
\* user agent, so any connection context with the same ip and user agent
\* has the same fingerprint and, for the request's code, the same
\* per-origin counter, on which the request is counted when accepted.
C23_FingerprintOfIpAndAgent ==
  \A p \in Procs :
    (req[p].caller = "notifyOwner" /\ req[p].rawRequest.present) =>
      LET r == req[p]
          ip == RequesterIp(r.rawRequest)
          agent == RequesterAgent(r.rawRequest)
          origin == counters[perOriginRef(r.qrId, Sha256Hex32(ip, agent))]
      IN /\ getRequesterFingerprint(r.rawRequest).ip = ip
         /\ r.requesterFingerprint = Sha256Hex32(ip, agent)
         /\ \A other \in OriginRawRequests :
              (RequesterIp(other) = ip /\ RequesterAgent(other) = agent) =>
                perOriginRef(r.qrId, getRequesterFingerprint(other).fingerprint)
                  = checksOf(r)[1].ref
         /\ (r.decision = "accepted") =>
              /\ origin.exists /\ origin.count >= 1 /\ origin.updatedAt = r.nowMs
         /\ (r.decision = "rejected" /\ r.error.scope = "origin") =>
              /\ origin.exists /\ origin.count = RATE_LIMIT_CONFIG.perOrigin.max

\* C23 witness: a request that reached the server directly from ip1 (no
\* forwarded-for header) was rejected by the per-origin quota of the
\* fingerprint of ip1, while a request whose header names ip1 as first hop
\* has the same fingerprint.
C23_Witness ==
  \E p \in Procs :
    /\ RateLimited(p)
    /\ req[p].error.scope = "origin"
    /\ req[p].rawRequest.present
    /\ req[p].rawRequest.forwardedFor = <<>>
    /\ PeerAddress(req[p].rawRequest) = "ip1"
    /\ req[p].requesterFingerprint = "h_ip1_ua1"
    /\ \E other \in OriginRawRequests :
         /\ FirstHop(other) = "ip1"
         /\ getRequesterFingerprint(other).fingerprint = req[p].requesterFingerprint

(***************************************************************************)
(* The windows of a counter over time.                                     *)
(***************************************************************************)
\* the clock readings of the committed attempts, per counter they touched
recordAccepted(p) ==
  IF pc[p] = "commit" /\ req'[p].decision = "accepted"
  THEN [ref \in Refs |->
          IF ref \in { checksOf(req[p])[i].ref : i \in 1..2 }
          THEN Append(acceptedAt[ref], req[p].nowMs) ELSE acceptedAt[ref]]
  ELSE acceptedAt

NextWindow ==
  \/ \E d \in SeqTickSteps :
       Tick(d, MaxSeqTicks, Callers({"p1"})) /\ UNCHANGED acceptedAt
  \/ \E f \in ConcFingerprints :
       UNCHANGED <<started, acceptedAt>> /\ RLCall("p1", "qr1", f)
  \/ TxnRead("p1") /\ UNCHANGED acceptedAt
  \/ TxnCommit("p1") /\ acceptedAt' = recordAccepted("p1")

\* calls of enforceRateLimits for one code, one after the other, with the
\* time of every accepted attempt recorded
SpecWindow == Init /\ [][NextWindow]_vars

\* the number of attempts accepted on a counter in the interval of the
\* window's length that starts at time start (its end excluded)
AcceptedIn(ref, start, windowMs) ==
  Cardinality({ i \in 1..Len(acceptedAt[ref]) :
                  start <= acceptedAt[ref][i] /\ acceptedAt[ref][i] < start + windowMs })

windowOf(ref) == IF ref[3] = "origin" THEN RATE_LIMIT_CONFIG.perOrigin.windowMs
                 ELSE RATE_LIMIT_CONFIG.perQr.windowMs

\* the intervals that matter start at an accepted attempt
Starts24(ref) == { acceptedAt[ref][i] : i \in 1..Len(acceptedAt[ref]) }

\* C24 (as amended): the quotas are per-window quotas whose window starts
\* at the first attempt accepted after the previous window expired: for
\* every key the attempts accepted since the counter's windowStart are the
\* counter's count, at most the scope's max (3 per origin, 8 per code), and
\* were all accepted within 60 s of windowStart; an arbitrary interval of
\* 60 s can straddle a reset, and holds at most 2 * max - 1 accepted attempts.
C24_WindowQuota ==
  \A ref \in Refs :
    /\ counters[ref].exists =>
         LET current == { i \in 1..Len(acceptedAt[ref]) :
                            acceptedAt[ref][i] >= counters[ref].windowStart }
         IN /\ Cardinality(current) = counters[ref].count
            /\ counters[ref].count <= maxOf(ref)
            /\ \A i \in current :
                 acceptedAt[ref][i] <= counters[ref].windowStart + windowOf(ref)
    /\ ~counters[ref].exists => acceptedAt[ref] = <<>>
    /\ \A start \in Starts24(ref) :
         AcceptedIn(ref, start, windowOf(ref)) <= 2 * maxOf(ref) - 1

\* C24 witness: five attempts of one origin were accepted within one
\* interval of 60 s: two at the end of a window and three after its reset.
C24_Witness ==
  \E ref \in Refs :
    /\ ref[3] = "origin"
    /\ counters[ref].exists /\ counters[ref].count = maxOf(ref)
    /\ \E start \in Starts24(ref) :
         AcceptedIn(ref, start, windowOf(ref)) = 2 * maxOf(ref) - 1

\* C24 (original): for every key, in any interval of the window's length,
\* wherever it starts, at most max attempts are accepted.
C24_Original ==
  \A ref \in Refs :
    \A start \in Starts24(ref) :
      AcceptedIn(ref, start, windowOf(ref)) <= maxOf(ref)

(***************************************************************************)
(* Requests after a stale-token cleanup.                                   *)
(***************************************************************************)
\* requests that name only the code: qr1, whose owner record holds the
\* token, and qr2, whose code record holds it
PurgePayloads ==
  { payload \in ResolvePayloads :
      /\ payload.qrId \in QrIds
      /\ payload.userId = "" /\ payload.fcmToken = "" /\ payload.vehicleId = ""
      /\ payload.metadata = NoMetadata }

NextPurge ==
  /\ UNCHANGED acceptedAt
  /\ \/ \E p \in Procs, payload \in PurgePayloads :
          /\ Callers(Procs) = Procs
          /\ Counted(MaxRequests)
          /\ Begin(p, payload, NoRequest)
     \/ \E p \in Procs : Pipeline(p)

\* notifyOwner requests for codes whose token is stored, each begun after
\* the one before it has ended, with every outcome of the lookups, the send
\* and the writes
SpecPurge == Init /\ [][NextPurge]_vars

\* request q ended in the stale-token cleanup, and the clearing write worked
Purged(q) == Finished(q) /\ req[q].cleanup = "cleared"

\* C25: after a permanent-invalid-destination failure whose cleanup write
\* succeeded, a later request for the same code that supplies no token of
\* its own does not resolve to the rejected token, whether the owner record
\* or the code record had supplied it: its lookups fail with
\* failed-precondition.
C25_TokenPurged ==
  [][\A p, q \in Procs :
       (/\ p # q
        /\ Purged(q)
        /\ pc[p] = "resolve" /\ pc'[p] # "resolve"
        /\ req[p].qrId = req[q].qrId
        /\ req[p].payload.fcmToken = "") =>
         /\ req'[p].resolvedFcmToken # req[q].resolvedFcmToken
         /\ req'[p].error.code = "failed-precondition"
         /\ pc'[p] = "done"]_vars

\* C26: under any interleaving of concurrent requests, every
\* resource-exhausted rejection carries 5 <= retryAfterSeconds <= 60 (the
\* window), and the elapsed time a request computes from its clock reading
\* and the stored windowStart is never negative.
C26_RetryWithinWindow ==
  [][\A p \in Procs : Decides(p) =>
       /\ \A i \in 1..2 : elapsedMs(SnapshotsAt(p)[i], req[p].nowMs) >= 0
       /\ Rejects(p) =>
            /\ MinRetrySeconds <= req'[p].error.retryAfterSeconds
            /\ req'[p].error.retryAfterSeconds * MsPerSecond
                 <= checksOf(req[p])[1].config.windowMs]_vars

\* the two counters of request r
refsOf(r) == { checksOf(r)[i].ref : i \in 1..2 }

\* C27: quota is consumed at the rate check and never refunded: a request
\* is dispatched only after its transaction has committed both increments,
\* and the steps after the commit (the send, also when it fails permanently
\* or transiently, the stale-token cleanup and the audit write, also when
\* it fails) leave every counter as it is; a request that fails validation
\* or the lookups ends there and changes no counter; and a counter changes
\* only by a commit that adds one to it or restarts an expired window at 1.
C27_QuotaNotRefunded ==
  [][/\ \A p \in Procs : req'[p] # req[p] =>
          /\ (Starts(p) \/ pc[p] = "resolve") =>
               /\ counters' = counters
               /\ req'[p].error # NoError =>
                    (pc'[p] = "done" /\ req'[p].commits = 0)
          /\ pc[p] \in {"send", "log", "cleanup"} =>
               /\ counters' = counters
               /\ req[p].commits = 1 /\ req'[p].commits = 1
               /\ \A ref \in refsOf(req[p]) :
                    counters[ref].exists /\ counters[ref].count >= 1
     /\ \A ref \in Refs : counters'[ref] # counters[ref] =>
          \E p \in Procs :
            /\ Commits(p) /\ ref \in refsOf(req[p])
            /\ \/ counters'[ref].count = snapCount(counters[ref]) + 1
               \/ /\ counters'[ref].count = 1
                  /\ Expired(counters[ref], req[p].nowMs, RATE_LIMIT_CONFIG.perOrigin)]_vars

\* C27 witness: a request whose send failed transiently has ended with
\* internal, nothing was dispatched or recorded, and both of its counters
\* still hold its increment.
C27_Witness ==
  \E p \in Procs :
    /\ Finished(p)
    /\ req[p].commits = 1
    /\ GatewaySaid(req[p], "unavailable")
    /\ req[p].error.code = "internal"
    /\ sent = <<>> /\ notifications = <<>>
    /\ \A ref \in refsOf(req[p]) : counters[ref].exists /\ counters[ref].count = 1

\* C28: in every message handed to the gateway the data payload's qrId is
\* the request's code id, userId the resolved owner id, vehicleId (when
\* present) the resolved vehicle id and source avahanaa-web, whatever keys
\* the caller's metadata holds.
C28_IdentityFieldsKept ==
  [][\A p \in Procs :
       (pc[p] = "send" /\ req'[p] # req[p] /\ Len(sent') = Len(sent) + 1) =>
         LET data == sent'[Len(sent')].data
         IN /\ data["qrId"] = req[p].qrId
            /\ data["userId"] = req[p].resolvedUserId
            /\ "vehicleId" \in DOMAIN data => data["vehicleId"] = req[p].resolvedVehicleId
            /\ data["source"] = "avahanaa-web"]_vars
====
